---- MODULE Spec2Model ----
(***************************************************************************)
(* MP Waste Dashboard, src/main.py: the update_dashboard callback (one     *)
(* report build per district-selection event) over the loaded data table,  *)
(* and the toggle_sections callback over the three collapsible sections.   *)
(*                                                                         *)
(* Numbers.  Tonne quantities (TPD columns, vehicle capacities, W, and the *)
(* float values the solver hands back) are held in tenths of a unit, so    *)
(* that 3.8 and 0.5 are exact; populations are whole persons.  The float   *)
(* arithmetic of the forecast and of the percentage is carried out in      *)
(* exact rationals [num, den].  float("inf") is the value INF, which no    *)
(* arithmetic is done on.                                                  *)
(***************************************************************************)
EXTENDS Integers, Sequences, FiniteSets, TLC

VARIABLES
    df,                   \* the loaded table, rows in sheet order (read only)
    cbc,                  \* what the installed solver does with an unsatisfiable problem
    pc,                   \* per build: the position of the callback
    clickData,            \* per build: the event's payload
    row,                  \* per build: index of match_row.iloc[0] (0: none yet)
    attrs,                \* per build: census_pop, sw_gen, sw_proc, sw_gap, sewage_gen, growth_rate
    processed_percent,    \* per build: [num, den]
    pop_2025,             \* per build
    CAGR,                 \* per build: [num, den]
    pop_forecast_values,  \* per build: sequence of [num, den], years 2025..2030
    pie,                  \* per build: [proc_pie, gap_pie]
    W,                    \* per build: the required capacity given to the solver
    solver,               \* per build: [called, status, has_value, x, y, z, objective]
    plan,                 \* per build: [bulk_opt, lcv_opt, tri_opt]
    ret,                  \* per build: what the callback returned or raised
    n_clicks,             \* per toggle button: its click count
    is_open,              \* per collapse: whether the section is shown
    ctx                   \* the last toggle_sections call: [called, triggered]

vars == <<df, cbc, pc, clickData, row, attrs, processed_percent, pop_2025, CAGR,
          pop_forecast_values, pie, W, solver, plan, ret, n_clicks, is_open, ctx>>

\* The state of the collapsible sections, which update_dashboard never
\* touches, and the state of the builds, which toggle_sections never touches.
sections == <<n_clicks, is_open, ctx>>
builds == <<df, cbc, pc, clickData, row, attrs, processed_percent, pop_2025, CAGR,
            pop_forecast_values, pie, W, solver, plan, ret>>

\* Two callback invocations may be in flight at once (threaded server).
Builds == {1, 2}

\* ------------------------------------------------------------------ numbers

\* Tonne quantities are held in 1/Tenth units (3.8 t = 38).
Tenth == 10

\* float("inf"): larger than every finite quantity of the model.
INF == 2^30

IsFinite(v) == v # INF

\* a / b for b > 0, rounded up.
CeilDiv(a, b) == IF a <= 0 THEN 0 ELSE (a + b - 1) \div b

RECURSIVE Pow(_, _)
Pow(a, k) == IF k = 0 THEN 1 ELSE a * Pow(a, k - 1)

\* ------------------------------------------------------------------ strings

\* Strings are sequences of characters; the alphabet of the model.
LowerChar(c) == CASE c = "A" -> "a" [] c = "B" -> "b" [] OTHER -> c

\* str.lower()
Lower(s) == [i \in 1..Len(s) |-> LowerChar(s[i])]

RECURSIVE LStrip(_)
LStrip(s) == IF s # <<>> /\ Head(s) = " " THEN LStrip(Tail(s)) ELSE s

RECURSIVE RStrip(_)
RStrip(s) == IF s # <<>> /\ s[Len(s)] = " " THEN RStrip(SubSeq(s, 1, Len(s) - 1)) ELSE s

\* Mutant of Strip: only leading whitespace is removed.
StripLeadingOnly(s) == LStrip(s)

\* str.strip()
Strip(s) == RStrip(LStrip(s))

\* .lower().strip(), both on the column and on the clicked name (line 237).
Norm(s) == Strip(Lower(s))

\* ------------------------------------------------------------------ raw cells

\* A cell of the sheet as pandas holds it.
Num(n) == [k |-> "num", v |-> n]        \* a numeric cell
NaN    == [k |-> "nan", v |-> 0]        \* an empty cell
Txt    == [k |-> "str", v |-> 0]        \* a text cell float() cannot parse
TxtInf == [k |-> "str_inf", v |-> 0]    \* the text "inf", which float() parses
Absent == [k |-> "absent", v |-> 0]     \* the column is not in the sheet
None   == [k |-> "none", v |-> 0]       \* Python None

\* row.get(col, default)
Get(r, col, default) == IF r[col].k = "absent" THEN default ELSE r[col]

\* pd.notna(val)
notna(val) == val.k \notin {"nan", "none"}

\* float(val) raises ValueError
FloatRaises(val) == val.k = "str"

\* float(val)
FloatOf(val) == IF val.k = "str_inf" THEN INF ELSE val.v

\* safe(val) raises
SafeRaises(val) == notna(val) /\ FloatRaises(val)

\* safe(val), when it does not raise
safe(val) == IF notna(val) THEN FloatOf(val) ELSE 0

\* ------------------------------------------------------------------ waste ratios

Min(a, b) == IF a <= b THEN a ELSE b

\* a - b in floats, b finite
Sub(a, b) == IF a = INF THEN INF ELSE a - b

\* (sw_proc / sw_gen * 100) if sw_gen > 0 else 0       (line 248)
RawPercent(proc, gen) ==
    IF gen > 0
    THEN IF gen = INF THEN [num |-> 0, den |-> 1] ELSE [num |-> proc * 100, den |-> gen]
    ELSE [num |-> 0, den |-> 1]

\* Mutant of Cap100: the percentage is not capped.
Cap100Missing(p) == p

\* if processed_percent > 100: processed_percent = 100  (lines 249-250)
Cap100(p) == IF p.num > 100 * p.den THEN [num |-> 100, den |-> 1] ELSE p

Percent(proc, gen) == Cap100(RawPercent(proc, gen))

\* proc_pie = min(sw_proc, sw_gen); gap_pie = sw_gen - proc_pie  (lines 404-405)
Pie(proc, gen) ==
    LET proc_pie == Min(proc, gen)
    IN  [proc_pie |-> proc_pie, gap_pie |-> Sub(gen, proc_pie)]

\* ------------------------------------------------------------------ forecast

\* years = list(range(2025, 2031))
years == [i \in 1..(2031 - 2025) |-> 2025 + (i - 1)]

\* The growth factors the model can represent exactly.
RootRange == 0..2

Coprime(a, b) == \A g \in 2..(a + b) : ~(a % g = 0 /\ b % g = 0)

\* (n / d) ** (1 / (2025 - 2011)) for n >= 0, d > 0, as a fraction in lowest terms
Root(n, d) ==
    CHOOSE r \in [num : RootRange, den : RootRange \ {0}] :
        /\ Pow(r.num, 2025 - 2011) * d = Pow(r.den, 2025 - 2011) * n
        /\ Coprime(r.num, r.den)

\* a negative base with a fractional exponent gives a complex number
CagrIsComplex(census, pop) == census > 0 /\ pop < 0

\* CAGR (lines 283-286), for a real result
CagrOf(census, pop) ==
    IF census > 0
    THEN LET r == Root(pop, census) IN [num |-> r.num - r.den, den |-> r.den]
    ELSE [num |-> 0, den |-> 1]

\* Mutant of ForecastValue: the exponent counts from 2024.
ForecastValueFrom2024(pop, cagr, year) ==
    [num |-> pop * Pow(cagr.num + cagr.den, year - 2024),
     den |-> Pow(cagr.den, year - 2024)]

\* pop_2025 * ((1 + CAGR) ** (year - 2025))             (line 288)
ForecastValue(pop, cagr, year) ==
    [num |-> pop * Pow(cagr.num + cagr.den, year - 2025),
     den |-> Pow(cagr.den, year - 2025)]

Forecast(pop, cagr) == [i \in 1..Len(years) |-> ForecastValue(pop, cagr, years[i])]

\* ------------------------------------------------------------------ vehicle optimization

\* Vehicle capacities (lines 475-477), in tenths of a tonne
cap_bulk == 20 * Tenth
cap_lcv == (38 * Tenth) \div 10
cap_tri == (5 * Tenth) \div 10

\* Cost per day of one vehicle (lines 480-482)
cost_bulk == 2354
cost_lcv == 1926
cost_tri == 913

\* Mutant of Objective: the number of vehicles is minimised, not their cost.
ObjectiveVehicleCount(x, y, z) == x + y + z

\* Mutant of Objective: the LCV is priced as a bulk truck, so that one of
\* either covers a small requirement at the same cost.
ObjectiveLcvAtBulkCost(x, y, z) == cost_bulk * x + cost_bulk * y + cost_tri * z

\* "Total_Daily_Cost"                                    (line 493)
Objective(x, y, z) == cost_bulk * x + cost_lcv * y + cost_tri * z

\* Mutant of Constraint: the inequality is the wrong way round.
ConstraintAtMost(x, y, z, w) == cap_bulk * x + cap_lcv * y + cap_tri * z <= w

\* "Capacity_Constraint", for a finite w                 (line 496)
Constraint(x, y, z, w) == cap_bulk * x + cap_lcv * y + cap_tri * z >= w

\* The variables are integers with lowBound=0 (lines 488-490).  No optimum
\* has more vehicles of one type than cover w alone, so the search is over
\* this box; and of the plans with the same x and y only the one with the
\* least feasible z can be an optimum (cost_tri > 0).
Candidates(w) ==
    {t \in (0..CeilDiv(w, cap_bulk)) \X (0..CeilDiv(w, cap_lcv)) \X (0..CeilDiv(w, cap_tri)) :
        /\ Constraint(t[1], t[2], t[3], w)
        /\ (t[3] = 0 \/ ~Constraint(t[1], t[2], t[3] - 1, w))}

\* The optimal solutions of the problem as stated.
Optima(w) ==
    LET C == Candidates(w)
    IN  {t \in C : \A u \in C : Objective(t[1], t[2], t[3]) <= Objective(u[1], u[2], u[3])}

\* What the solver may do when no plan satisfies the constraint (w = inf).
\* The code does not say: the call raises, or it ends not Optimal with the
\* variables unset (None) or left at some values.  One installation does
\* the same thing every time.
InfeasibleBehaviours ==
    {[status |-> "PulpSolverError", has_value |-> FALSE, x |-> 0, y |-> 0, z |-> 0],
     [status |-> "Infeasible", has_value |-> FALSE, x |-> 0, y |-> 0, z |-> 0],
     [status |-> "Infeasible", has_value |-> TRUE, x |-> 0, y |-> 0, z |-> 0],
     [status |-> "Infeasible", has_value |-> TRUE, x |-> Tenth, y |-> 0, z |-> Tenth \div 2]}

\* problem.solve() (line 501) and the state it leaves behind: the status,
\* each variable's varValue (a float held in 1/Tenth units) and the value of
\* the objective.  For a finite w the problem is feasible and bounded and
\* the solver ends Optimal at one of the optimal solutions.
SolveOutcomes(w, onInfeasible) ==
    IF IsFinite(w)
    THEN {[called |-> TRUE, status |-> "Optimal", has_value |-> TRUE,
           x |-> t[1] * Tenth, y |-> t[2] * Tenth, z |-> t[3] * Tenth,
           objective |-> Objective(t[1], t[2], t[3])] : t \in Optima(w)}
    ELSE {[called |-> TRUE, status |-> onInfeasible.status,
           has_value |-> onInfeasible.has_value,
           x |-> onInfeasible.x, y |-> onInfeasible.y, z |-> onInfeasible.z,
           objective |-> 0]}

\* Mutant of IntOf: one vehicle is added to every count.
IntOfPlusOne(v) == (IF v >= 0 THEN v \div Tenth ELSE -((-v) \div Tenth)) + 1

\* int(v) of a float v held in 1/Tenth units: truncation towards zero
IntOf(v) == IF v >= 0 THEN v \div Tenth ELSE -((-v) \div Tenth)

\* ------------------------------------------------------------------ the data table

\* The numeric columns update_dashboard reads.
Cols == {"census", "pop2025", "gen", "proc", "gap", "sewage", "growth", "pw", "cd", "ew"}

\* Largest and most negative generated figure (tenths of a tonne) of the
\* fine-grained tables.
MaxW == 240
MaxNeg == 3

\* A well-formed row: population 1 -> 2^14 (growth factor 2 a year),
\* 4.3 TPD generated, 0.5 processed, 3.8 gap.
BaseRow(name) ==
    [District |-> name, census |-> Num(1), pop2025 |-> Num(2^14),
     gen |-> Num(43), proc |-> Num(5), gap |-> Num(38),
     sewage |-> Num(7), growth |-> Num(20), pw |-> Num(2), cd |-> Num(3), ew |-> Num(730)]

PopVals == {0, 1, 2^14}
GenVals == {0, 5, 38, 43, 205}
ProcVals == {0, 43, 300}
Anomalies == {NaN, Txt, Absent, Num(-3)}

\* The rows the first district may hold.
RowSet(name) ==
    {[BaseRow(name) EXCEPT !.gen = Num(g), !.proc = Num(p)] : g \in GenVals, p \in ProcVals}
    \cup {[BaseRow(name) EXCEPT !.census = Num(c), !.pop2025 = Num(q)] : c \in PopVals, q \in PopVals}
    \cup {[BaseRow(name) EXCEPT ![c] = a] : c \in Cols, a \in Anomalies}
    \cup {[BaseRow(name) EXCEPT !.gen = TxtInf]}

\* Rows with every generated figure of a range.
FineRowSet(name) == {[BaseRow(name) EXCEPT !.gen = Num(g)] : g \in (-MaxNeg)..MaxW}

\* District names as the sheet holds them (line 38 keeps every non-blank
\* name, unstripped); the third normalises to the same name as the first.
Name1 == <<"A", "b">>
Name2 == <<" ", "b", "A", " ">>
Name3 == <<"A", "B">>

\* Names the map can send (properties.Dist_Name of the GeoJSON).
ClickNames == {<<"A", "b">>, <<"a", "B", " ">>, <<" ", "B", "a">>, <<"b", " ", "a">>, <<"z">>}

NoClick == [points |-> FALSE, location |-> <<>>]
ClickEvents == {NoClick} \cup {[points |-> TRUE, location |-> n] : n \in ClickNames}

\* ------------------------------------------------------------------ outputs

placeholder == [text |-> "Click a district on the map"]
no_data == [text |-> "No data for selected district"]

\* What the callback returns when no district has been clicked (line 234).
DoneIdle ==
    [kind |-> "placeholder", exc |-> "",
     out |-> <<placeholder, placeholder, placeholder, placeholder>>]

NoRet == [kind |-> "none", exc |-> "", out |-> <<>>]
Raise(e) == [kind |-> "raise", exc |-> e, out |-> <<>>]

\* ------------------------------------------------------------------ initial state

NoAttrs == [census_pop |-> 0, sw_gen |-> 0, sw_proc |-> 0, sw_gap |-> 0,
            sewage_gen |-> 0, growth_rate |-> 0]
NotSolved == [called |-> FALSE, status |-> "Not Solved", has_value |-> FALSE,
              x |-> 0, y |-> 0, z |-> 0, objective |-> 0]
NoPlan == [bulk_opt |-> 0, lcv_opt |-> 0, tri_opt |-> 0]

InitLocals ==
    /\ pc = [b \in Builds |-> "idle"]
    /\ clickData = [b \in Builds |-> NoClick]
    /\ row = [b \in Builds |-> 0]
    /\ attrs = [b \in Builds |-> NoAttrs]
    /\ processed_percent = [b \in Builds |-> [num |-> 0, den |-> 1]]
    /\ pop_2025 = [b \in Builds |-> 0]
    /\ CAGR = [b \in Builds |-> [num |-> 0, den |-> 1]]
    /\ pop_forecast_values = [b \in Builds |-> <<>>]
    /\ pie = [b \in Builds |-> [proc_pie |-> 0, gap_pie |-> 0]]
    /\ W = [b \in Builds |-> 0]
    /\ solver = [b \in Builds |-> NotSolved]
    /\ plan = [b \in Builds |-> NoPlan]
    /\ ret = [b \in Builds |-> NoRet]

\* ------------------------------------------------------------------ toggle_sections

\* The three toggle buttons (lines 143-163) and the three collapses
\* (lines 186-215), in the order of the callback's inputs and outputs.
Buttons == <<"toggle-pop", "toggle-waste-char", "toggle-waste-comp">>
Collapses == <<"collapse-pop", "collapse-waste-char", "collapse-waste-comp">>

\* A prop_id is held as its tokens: "toggle-pop.n_clicks" is
\* <<"toggle-pop", ".", "n_clicks">>, and "." is <<".">>.
PropId(button) == <<button, ".", "n_clicks">>

\* ctx.triggered: a list of the triggering props, and its truth value.  At
\* the page-load call the list holds the one item "." or nothing, and is
\* false or true according to the installed Dash.
TriggeredAtLoad ==
    {[truthy |-> FALSE, items |-> <<>>],
     [truthy |-> FALSE, items |-> <<[prop_id |-> <<".">>]>>],
     [truthy |-> TRUE, items |-> <<[prop_id |-> <<".">>]>>]}
TriggeredBy(button) == [truthy |-> TRUE, items |-> <<[prop_id |-> PropId(button)]>>]

\* s.split(".")[0]
SplitFirst(s) ==
    LET dots == {i \in 1..Len(s) : s[i] = "."}
    IN  IF dots = {} THEN s
        ELSE SubSeq(s, 1, (CHOOSE i \in dots : \A j \in dots : i <= j) - 1)

\* Mutant of ToggleSections: the clicked section is flipped and the others
\* keep their state.
ToggleSectionsFlip(triggered, n, open) ==
    IF ~triggered.truthy
    THEN [i \in 1..3 |-> FALSE]
    ELSE LET button_id == SplitFirst(triggered.items[1].prop_id)
         IN  [i \in 1..3 |-> IF button_id = <<Buttons[i]>> THEN ~open[i] ELSE open[i]]

\* toggle_sections (lines 633-647): the three is_open values returned, in
\* output order.  n and open are the inputs and states, which it ignores.
ToggleSections(triggered, n, open) ==
    IF ~triggered.truthy
    THEN [i \in 1..3 |-> FALSE]
    ELSE LET button_id == SplitFirst(triggered.items[1].prop_id)
         IN  [i \in 1..3 |-> button_id = <<Buttons[i]>>]

\* Clicks per button that are followed.
MaxClicks == 3

\* The layout as constructed (n_clicks=0, is_open=False); no callback has run.
InitSections ==
    /\ n_clicks = [i \in 1..3 |-> 0]
    /\ is_open = [i \in 1..3 |-> FALSE]
    /\ ctx = [called |-> FALSE, triggered |-> [truthy |-> FALSE, items |-> <<>>]]

\* The table as loaded at import (lines 30-38); no callback has run.
Table(r) == <<r, [BaseRow(Name2) EXCEPT !.gap = Num(0)],
                [BaseRow(Name3) EXCEPT !.gen = Num(205)]>>

\* The solver's behaviour on an unsatisfiable problem shows only when the
\* table holds an infinite figure.
Behaviours(t) ==
    IF \E i \in 1..Len(t) : t[i].gen = TxtInf
    THEN InfeasibleBehaviours
    ELSE {CHOOSE o \in InfeasibleBehaviours : o.status = "PulpSolverError"}

Init ==
    /\ df \in {Table(r) : r \in RowSet(Name1)}
    /\ cbc \in Behaviours(df)
    /\ InitLocals
    /\ InitSections

\* ------------------------------------------------------------------ update_dashboard

\* The rows of match_row (line 237), by index.
MatchRows(name) == {i \in 1..Len(df) : Norm(df[i].District) = Norm(name)}

\* match_row.iloc[0]
First(S) == CHOOSE i \in S : \A j \in S : i <= j

Finish(b, r) ==
    /\ pc' = [pc EXCEPT ![b] = "done"]
    /\ ret' = [ret EXCEPT ![b] = r]

\* Lines 230-242: the event arrives; placeholder, no-data, or the row.
Click(b) ==
    /\ pc[b] = "idle"
    /\ \E cd \in ClickEvents :
        /\ clickData' = [clickData EXCEPT ![b] = cd]
        /\ IF ~cd.points
           THEN /\ Finish(b, DoneIdle)
                /\ UNCHANGED row
           ELSE IF MatchRows(cd.location) = {}
           THEN /\ Finish(b, [kind |-> "no_data", exc |-> "",
                              out |-> <<no_data, no_data, no_data, no_data>>])
                /\ UNCHANGED row
           ELSE /\ row' = [row EXCEPT ![b] = First(MatchRows(cd.location))]
                /\ pc' = [pc EXCEPT ![b] = "extract"]
                /\ UNCHANGED ret
    /\ UNCHANGED <<sections, df, cbc, attrs, processed_percent, pop_2025, CAGR, pop_forecast_values,
                   pie, W, solver, plan>>

\* Lines 244-252: the attribute values and the processed percentage.
Extract(b) ==
    /\ pc[b] = "extract"
    /\ LET r == df[row[b]]
           census == Get(r, "census", Num(0))
           gen == Get(r, "gen", Num(0))
           proc == Get(r, "proc", Num(0))
           gap == Get(r, "gap", Num(0))
           sewage == Get(r, "sewage", Num(0))
           growth == Get(r, "growth", None)
       IN  IF \E c \in {census, gen, proc, gap, sewage, growth} : SafeRaises(c)
           THEN /\ Finish(b, Raise("ValueError"))
                /\ UNCHANGED <<attrs, processed_percent>>
           ELSE /\ attrs' = [attrs EXCEPT ![b] =
                      [census_pop |-> safe(census), sw_gen |-> safe(gen),
                       sw_proc |-> safe(proc), sw_gap |-> safe(gap),
                       sewage_gen |-> safe(sewage), growth_rate |-> safe(growth)]]
                /\ processed_percent' = [processed_percent EXCEPT ![b] =
                      Percent(safe(proc), safe(gen))]
                /\ pc' = [pc EXCEPT ![b] = "forecast"]
                /\ UNCHANGED ret
    /\ UNCHANGED <<sections, df, cbc, clickData, row, pop_2025, CAGR, pop_forecast_values, pie, W,
                   solver, plan>>

\* Lines 256-357: the population section.  int(census_pop) raises on inf,
\* safe() may raise, and round() raises on the complex values a negative
\* projected population gives.
ForecastStep(b) ==
    /\ pc[b] = "forecast"
    /\ LET p == Get(df[row[b]], "pop2025", Num(0))
           census_pop == attrs[b].census_pop
       IN  IF ~IsFinite(census_pop)
           THEN /\ Finish(b, Raise("OverflowError"))
                /\ UNCHANGED <<pop_2025, CAGR, pop_forecast_values>>
           ELSE IF SafeRaises(p)
           THEN /\ Finish(b, Raise("ValueError"))
                /\ UNCHANGED <<pop_2025, CAGR, pop_forecast_values>>
           ELSE IF CagrIsComplex(census_pop, safe(p))
           THEN /\ pop_2025' = [pop_2025 EXCEPT ![b] = safe(p)]
                /\ Finish(b, Raise("TypeError"))
                /\ UNCHANGED <<CAGR, pop_forecast_values>>
           ELSE /\ pop_2025' = [pop_2025 EXCEPT ![b] = safe(p)]
                /\ CAGR' = [CAGR EXCEPT ![b] = CagrOf(census_pop, safe(p))]
                /\ pop_forecast_values' = [pop_forecast_values EXCEPT ![b] =
                      Forecast(safe(p), CagrOf(census_pop, safe(p)))]
                /\ pc' = [pc EXCEPT ![b] = "waste"]
                /\ UNCHANGED ret
    /\ UNCHANGED <<sections, df, cbc, clickData, row, attrs, processed_percent, pie, W, solver, plan>>

\* Lines 362-463: the waste metrics are read again (the same cells, so
\* safe() does not raise here) and the pie split is computed.
WasteStep(b) ==
    /\ pc[b] = "waste"
    /\ LET r == df[row[b]]
           sw_gen == safe(Get(r, "gen", Num(0)))
           sw_proc == safe(Get(r, "proc", Num(0)))
           sw_gap == safe(Get(r, "gap", Num(0)))
       IN  /\ attrs' = [attrs EXCEPT ![b].sw_gen = sw_gen, ![b].sw_proc = sw_proc,
                                     ![b].sw_gap = sw_gap]
           /\ pie' = [pie EXCEPT ![b] = Pie(sw_proc, sw_gen)]
    /\ pc' = [pc EXCEPT ![b] = "optimize"]
    /\ UNCHANGED <<sections, df, cbc, clickData, row, processed_percent, pop_2025, CAGR,
                   pop_forecast_values, W, solver, plan, ret>>

\* Mutant of Capacity: the fleet is sized to the collection gap.
CapacityFromGap(a) == a.sw_gap

\* W = sw_gen                                            (line 472)
Capacity(a) == a.sw_gen

\* Mutant of Solve: the problem and its variables are module-level objects
\* that every running build shares.
SolveSharedProblem(b) ==
    /\ pc[b] = "optimize"
    /\ W' = [W EXCEPT ![b] = Capacity(attrs[b])]
    /\ \E o \in SolveOutcomes(Capacity(attrs[b]), cbc) :
        /\ solver' = [c \in Builds |-> o]
        /\ IF o.status = "PulpSolverError"
           THEN Finish(b, Raise("PulpSolverError"))
           ELSE /\ pc' = [pc EXCEPT ![b] = "retrieve"]
                /\ UNCHANGED ret
    /\ UNCHANGED <<sections, df, cbc, clickData, row, attrs, processed_percent, pop_2025, CAGR,
                   pop_forecast_values, pie, plan>>

\* Lines 472-501: the problem is stated and solved.
Solve(b) ==
    /\ pc[b] = "optimize"
    /\ W' = [W EXCEPT ![b] = Capacity(attrs[b])]
    /\ \E o \in SolveOutcomes(Capacity(attrs[b]), cbc) :
        /\ solver' = [solver EXCEPT ![b] = o]
        /\ IF o.status = "PulpSolverError"
           THEN Finish(b, Raise("PulpSolverError"))
           ELSE /\ pc' = [pc EXCEPT ![b] = "retrieve"]
                /\ UNCHANGED ret
    /\ UNCHANGED <<sections, df, cbc, clickData, row, attrs, processed_percent, pop_2025, CAGR,
                   pop_forecast_values, pie, plan>>

\* The four children the callback returns (line 618).
Report(b, cards, pw, cd, ew) ==
    <<[district |-> clickData[b].location],
      [census_card |-> attrs[b].census_pop, forecast |-> pop_forecast_values[b]],
      [percent |-> processed_percent[b],
       bars |-> <<attrs[b].sw_gen, attrs[b].sw_proc, attrs[b].sw_gap>>,
       pie |-> pie[b], vehicle_cards |-> cards],
      [sw_gen |-> attrs[b].sw_gen, pw |-> pw, cd |-> cd,
       ew |-> [num |-> ew, den |-> 365], sewage |-> attrs[b].sewage_gen]>>

\* Lines 503-618: the counts are read back with int(), the vehicle cards and
\* the composition section are built and the report is returned.  The
\* solver's status is not looked at; int(None) raises TypeError.
Retrieve(b) ==
    /\ pc[b] = "retrieve"
    /\ LET r == df[row[b]]
           pw == Get(r, "pw", Num(0))
           cd == Get(r, "cd", Num(0))
           ew == Get(r, "ew", Num(0))
           p == [bulk_opt |-> IntOf(solver[b].x), lcv_opt |-> IntOf(solver[b].y),
                 tri_opt |-> IntOf(solver[b].z)]
           cards == [bulk |-> p.bulk_opt, lcv |-> p.lcv_opt, tri |-> p.tri_opt]
       IN  IF ~solver[b].has_value
           THEN /\ Finish(b, Raise("TypeError"))
                /\ UNCHANGED plan
           ELSE IF \E c \in {pw, cd, ew} : SafeRaises(c)
           THEN /\ plan' = [plan EXCEPT ![b] = p]
                /\ Finish(b, Raise("ValueError"))
           ELSE /\ plan' = [plan EXCEPT ![b] = p]
                /\ Finish(b, [kind |-> "report", exc |-> "",
                              out |-> Report(b, cards, safe(pw), safe(cd), safe(ew))])
    /\ UNCHANGED <<sections, df, cbc, clickData, row, attrs, processed_percent, pop_2025, CAGR,
                   pop_forecast_values, pie, W, solver>>

Next ==
    \E b \in Builds :
        \/ Click(b)
        \/ Extract(b)
        \/ ForecastStep(b)
        \/ WasteStep(b)
        \/ Solve(b)
        \/ Retrieve(b)

Spec == Init /\ [][Next]_vars

\* The optimizer over every generated figure of a range: the second
\* invocation has already returned (the page-load call, with no click).
InitOpt ==
    /\ df \in {Table(r) : r \in FineRowSet(Name1)}
    /\ cbc \in Behaviours(df)
    /\ pc = [b \in Builds |-> IF b = 1 THEN "idle" ELSE "done"]
    /\ clickData = [b \in Builds |-> NoClick]
    /\ row = [b \in Builds |-> 0]
    /\ attrs = [b \in Builds |-> NoAttrs]
    /\ processed_percent = [b \in Builds |-> [num |-> 0, den |-> 1]]
    /\ pop_2025 = [b \in Builds |-> 0]
    /\ CAGR = [b \in Builds |-> [num |-> 0, den |-> 1]]
    /\ pop_forecast_values = [b \in Builds |-> <<>>]
    /\ pie = [b \in Builds |-> [proc_pie |-> 0, gap_pie |-> 0]]
    /\ W = [b \in Builds |-> 0]
    /\ solver = [b \in Builds |-> NotSolved]
    /\ plan = [b \in Builds |-> NoPlan]
    /\ ret = [b \in Builds |-> IF b = 1 THEN NoRet ELSE DoneIdle]
    /\ InitSections

SpecOpt == InitOpt /\ [][Next]_vars

\* ------------------------------------------------------------------ the sections

\* The page is loaded: the layout is rendered as constructed and Dash calls
\* toggle_sections once, with no triggering button.
PageLoad ==
    /\ \E t \in TriggeredAtLoad :
        /\ ctx' = [called |-> TRUE, triggered |-> t]
        /\ n_clicks' = [i \in 1..3 |-> 0]
        /\ is_open' = ToggleSections(t, [i \in 1..3 |-> 0], [i \in 1..3 |-> FALSE])
    /\ UNCHANGED builds

\* Button i is clicked on a loaded page: its n_clicks goes up and Dash calls
\* toggle_sections with that button as the trigger.
ToggleClick(i) ==
    /\ ctx.called
    /\ n_clicks[i] < MaxClicks
    /\ n_clicks' = [n_clicks EXCEPT ![i] = @ + 1]
    /\ ctx' = [called |-> TRUE, triggered |-> TriggeredBy(Buttons[i])]
    /\ is_open' = ToggleSections(TriggeredBy(Buttons[i]),
                                 [n_clicks EXCEPT ![i] = @ + 1], is_open)
    /\ UNCHANGED builds

NextSections ==
    \/ PageLoad
    \/ \E i \in 1..3 : ToggleClick(i)

InitPage ==
    /\ df = Table(BaseRow(Name1))
    /\ cbc \in Behaviours(df)
    /\ InitLocals
    /\ InitSections

SpecSections == InitPage /\ [][NextSections]_vars

\* ------------------------------------------------------------------ properties

\* The callback has returned a report.
Reported(b) == pc[b] = "done" /\ ret[b].kind = "report"

\* The three vehicle cards of a returned report.
Cards(b) == ret[b].out[3].vehicle_cards

\* The deployed catalog: capacity in tenths of a tonne, and cost per day.
CatalogCapacity(a, l, t) == 200 * a + 38 * l + 5 * t
CatalogCost(a, l, t) == 2354 * a + 1926 * l + 913 * t

\* Every plan that could undercut an optimum: one more vehicle of a type
\* than covers w alone is dominated by the plan without it.
Alternatives(w) ==
    (0..(CeilDiv(w, 200) + 1)) \X (0..(CeilDiv(w, 38) + 1)) \X (0..(CeilDiv(w, 5) + 1))

\* C1: for every finite required capacity R > 0, no triple of non-negative
\* counts whose capacity is at least R costs strictly less than the counts
\* the callback reports.
C1_MinimumCost ==
    \A b \in Builds :
        (Reported(b) /\ W[b] > 0 /\ IsFinite(W[b])) =>
            \A u \in Alternatives(W[b]) :
                CatalogCapacity(u[1], u[2], u[3]) >= W[b] =>
                    CatalogCost(Cards(b).bulk, Cards(b).lcv, Cards(b).tri)
                        <= CatalogCost(u[1], u[2], u[3])

\* A report whose optimum mixes vehicle types: 20.5 t to 21.0 t is one bulk
\* truck and tri-cycles, cheaper than two trucks or a truck and an LCV.
C1_Witness ==
    \E b \in Builds :
        /\ Reported(b) /\ W[b] > 200
        /\ Cards(b).bulk = 1 /\ Cards(b).lcv = 0 /\ Cards(b).tri = 2

\* C2: for every finite required capacity R > 0 the reported integer counts
\* cover it: 20*bulk + 3.8*lcv + 0.5*tri >= R.
C2_Covers ==
    \A b \in Builds :
        (Reported(b) /\ W[b] > 0 /\ IsFinite(W[b])) =>
            CatalogCapacity(Cards(b).bulk, Cards(b).lcv, Cards(b).tri) >= W[b]

\* A report for a requirement that no single vehicle type covers exactly.
C2_Witness ==
    \E b \in Builds :
        /\ Reported(b) /\ W[b] = 239
        /\ Cards(b).bulk = 2 /\ solver[b].x = 2 * Tenth

\* The district's resolved waste_generated_tpd, from the table.
GeneratedOf(b) == safe(Get(df[row[b]], "gen", Num(0)))

NoVehicles == [bulk |-> 0, lcv |-> 0, tri |-> 0]

\* C4 as amended: when the required capacity is <= 0 the report shows zero
\* vehicles of every type, at cost 0; the requirement is given to the
\* solver like any other, and the zero plan is the solver's optimum.
C4_ZeroPlanFromSolver ==
    \A b \in Builds :
        (Reported(b) /\ W[b] <= 0) =>
            /\ Cards(b) = NoVehicles
            /\ CatalogCost(Cards(b).bulk, Cards(b).lcv, Cards(b).tri) = 0
            /\ solver[b].called /\ solver[b].status = "Optimal"
            /\ solver[b].objective = 0

\* A report for a negative requirement, solved by the solver.
C4_Witness ==
    \E b \in Builds : Reported(b) /\ W[b] < 0 /\ solver[b].called /\ Cards(b) = NoVehicles

\* C4 as stated: the zero plan for a requirement <= 0 comes from a base case
\* and the solver is not invoked.
C4_BaseCaseBeforeSolver ==
    \A b \in Builds :
        (Reported(b) /\ W[b] <= 0) =>
            /\ Cards(b) = NoVehicles
            /\ ~solver[b].called

\* C5 as stated: a build whose solver did not end Optimal ends in an explicit
\* Infeasible outcome, which is neither a report nor the no-data outcome.
C5_ExplicitInfeasible ==
    \A b \in Builds :
        (pc[b] = "done" /\ solver[b].called /\ solver[b].status # "Optimal") =>
            ret[b].kind = "infeasible"

\* Case-folding and trimming, stated on positions.
Fold(c) == IF c \in {"A", "a"} THEN "a" ELSE IF c \in {"B", "b"} THEN "b" ELSE c
Inked(s) == {i \in 1..Len(s) : s[i] # " "}
Core(s) ==
    IF Inked(s) = {} THEN <<>>
    ELSE SubSeq(s, CHOOSE i \in Inked(s) : \A j \in Inked(s) : i <= j,
                   CHOOSE i \in Inked(s) : \A j \in Inked(s) : i >= j)
SameName(a, b) ==
    /\ Len(Core(a)) = Len(Core(b))
    /\ \A i \in 1..Len(Core(a)) : Fold(Core(a)[i]) = Fold(Core(b)[i])

NamedRows(b) == {i \in 1..Len(df) : SameName(df[i].District, clickData[b].location)}

\* C6: a clicked name is resolved by comparing names lower-cased and
\* trimmed; the first such row is the build's row, and when there is none
\* all four outputs are the no-data message and nothing is computed.
C6_Lookup ==
    \A b \in Builds :
        (pc[b] # "idle" /\ clickData[b].points) =>
            IF NamedRows(b) = {}
            THEN /\ pc[b] = "done"
                 /\ ret[b] = [kind |-> "no_data", exc |-> "",
                              out |-> <<no_data, no_data, no_data, no_data>>]
                 /\ row[b] = 0 /\ attrs[b] = NoAttrs
                 /\ pop_forecast_values[b] = <<>>
                 /\ ~solver[b].called /\ plan[b] = NoPlan
            ELSE /\ row[b] \in NamedRows(b)
                 /\ \A i \in NamedRows(b) : row[b] <= i
                 /\ ret[b].kind # "no_data"

\* One build found no row for a name with inner whitespace; another found
\* its row under a name that differs from the stored one in case and in
\* surrounding whitespace.
C6_Witness ==
    \E b1, b2 \in Builds :
        /\ pc[b1] = "done" /\ ret[b1].kind = "no_data"
        /\ clickData[b1].location = <<"b", " ", "a">>
        /\ Reported(b2) /\ row[b2] = 2
        /\ clickData[b2].location = <<" ", "B", "a">>

\* The attribute each column resolves to in Extract.
AttrOf == [census |-> "census_pop", gen |-> "sw_gen", proc |-> "sw_proc",
           gap |-> "sw_gap", sewage |-> "sewage_gen", growth |-> "growth_rate"]

\* C7 as stated: a missing, null or non-numeric raw value resolves to 0.0
\* without raising, and no resolved field is negative.
C7_SafeCoercion ==
    \A b \in Builds :
        (row[b] # 0 /\ pc[b] # "extract") =>
            /\ ret[b].exc # "ValueError"
            /\ \A c \in DOMAIN AttrOf :
                /\ attrs[b][AttrOf[c]] >= 0
                /\ df[row[b]][c].k # "num" => attrs[b][AttrOf[c]] = 0

\* The waste section has been computed.
WasteDone(b) == pc[b] \in {"optimize", "retrieve"} \/ (pc[b] = "done" /\ solver[b].called)

\* C8: for generated g >= 0 and processed p >= 0, the pie split is
\* min(p, g) and g - min(p, g), both non-negative and summing to g; the
\* percentage lies in [0, 100], is 0 when g = 0 and is 100 when p > g > 0.
C8_Ratios ==
    \A b \in Builds :
        LET g == attrs[b].sw_gen
            p == attrs[b].sw_proc
            pct == processed_percent[b]
        IN  (WasteDone(b) /\ g >= 0 /\ p >= 0 /\ IsFinite(g)) =>
                /\ pie[b].proc_pie = (IF p <= g THEN p ELSE g)
                /\ pie[b].gap_pie = g - pie[b].proc_pie
                /\ pie[b].proc_pie >= 0 /\ pie[b].gap_pie >= 0
                /\ pie[b].proc_pie + pie[b].gap_pie = g
                /\ pct.den > 0 /\ 0 <= pct.num /\ pct.num <= 100 * pct.den
                /\ g = 0 => pct.num = 0
                /\ (p > g /\ g > 0) => pct.num = 100 * pct.den
                /\ (p <= g /\ g > 0) => pct.num * g = 100 * p * pct.den

\* Processed exceeds generated in one build (the cap), and nothing is
\* generated while something is processed in another.
C8_Witness ==
    \E b \in Builds :
        /\ WasteDone(b) /\ attrs[b].sw_proc > attrs[b].sw_gen /\ attrs[b].sw_gen > 0
        /\ pie[b].gap_pie = 0 /\ processed_percent[b].num = 100

\* The value v equals the whole number n.
Equals(v, n) == v.num = n * v.den

\* C9: with a census population of 0 the growth rate is 0 and every
\* forecast value 2025..2030 equals the projected 2025 population; for any
\* census value the first forecast value equals it.
C9_Forecast ==
    \A b \in Builds :
        pop_forecast_values[b] # <<>> =>
            LET f == pop_forecast_values[b]
                P == safe(Get(df[row[b]], "pop2025", Num(0)))
            IN  /\ Len(f) = 6 /\ pop_2025[b] = P
                /\ Equals(f[1], P)
                /\ attrs[b].census_pop = 0 =>
                      /\ CAGR[b].num = 0
                      /\ \A i \in 1..6 : Equals(f[i], P)

\* A flat forecast at 16384 for a census of 0, beside a growing forecast
\* for a positive census.
C9_Witness ==
    \E b1, b2 \in Builds :
        /\ pop_forecast_values[b1] # <<>> /\ attrs[b1].census_pop = 0
        /\ df[row[b1]].census = Num(0) /\ pop_2025[b1] = 2^14
        /\ pop_forecast_values[b2] # <<>> /\ attrs[b2].census_pop > 0
        /\ ~Equals(pop_forecast_values[b2][6], pop_2025[b2])

CardTriple(b) == <<Cards(b).bulk, Cards(b).lcv, Cards(b).tri>>

\* Catalog order of enumeration: bulk first, then LCV, then tri-cycle.
CatalogOrderLeq(t, u) ==
    \/ t[1] < u[1]
    \/ t[1] = u[1] /\ t[2] < u[2]
    \/ t[1] = u[1] /\ t[2] = u[2] /\ t[3] <= u[3]

Private(b) ==
    <<pc[b], clickData[b], row[b], attrs[b], processed_percent[b], pop_2025[b], CAGR[b],
      pop_forecast_values[b], pie[b], W[b], solver[b], plan[b], ret[b]>>

\* The report of a build that runs alone for row r under event cd, given
\* the solver's outcome o.
SoloReport(cd, r, o) ==
    LET gen == safe(Get(r, "gen", Num(0)))
        proc == safe(Get(r, "proc", Num(0)))
        gap == safe(Get(r, "gap", Num(0)))
        census == safe(Get(r, "census", Num(0)))
        p == safe(Get(r, "pop2025", Num(0)))
    IN  <<[district |-> cd.location],
          [census_card |-> census, forecast |-> Forecast(p, CagrOf(census, p))],
          [percent |-> Percent(proc, gen), bars |-> <<gen, proc, gap>>,
           pie |-> Pie(proc, gen),
           vehicle_cards |-> [bulk |-> IntOf(o.x), lcv |-> IntOf(o.y), tri |-> IntOf(o.z)]],
          [sw_gen |-> gen, pw |-> safe(Get(r, "pw", Num(0))),
           cd |-> safe(Get(r, "cd", Num(0))),
           ew |-> [num |-> safe(Get(r, "ew", Num(0))), den |-> 365],
           sewage |-> safe(Get(r, "sewage", Num(0)))]>>

\* What a build returns when it is the only one that runs, as a function
\* of the table and of its own event.
SoloResults(cd) ==
    IF ~cd.points THEN {DoneIdle}
    ELSE IF MatchRows(cd.location) = {}
    THEN {[kind |-> "no_data", exc |-> "", out |-> <<no_data, no_data, no_data, no_data>>]}
    ELSE LET r == df[First(MatchRows(cd.location))]
             first6 == {Get(r, "census", Num(0)), Get(r, "gen", Num(0)), Get(r, "proc", Num(0)),
                        Get(r, "gap", Num(0)), Get(r, "sewage", Num(0)), Get(r, "growth", None)}
             last3 == {Get(r, "pw", Num(0)), Get(r, "cd", Num(0)), Get(r, "ew", Num(0))}
         IN  IF \E c \in first6 : SafeRaises(c) THEN {Raise("ValueError")}
             ELSE IF ~IsFinite(safe(Get(r, "census", Num(0)))) THEN {Raise("OverflowError")}
             ELSE IF SafeRaises(Get(r, "pop2025", Num(0))) THEN {Raise("ValueError")}
             ELSE IF CagrIsComplex(safe(Get(r, "census", Num(0))), safe(Get(r, "pop2025", Num(0))))
             THEN {Raise("TypeError")}
             ELSE {IF o.status = "PulpSolverError" THEN Raise("PulpSolverError")
                   ELSE IF ~o.has_value THEN Raise("TypeError")
                   ELSE IF \E c \in last3 : SafeRaises(c) THEN Raise("ValueError")
                   ELSE [kind |-> "report", exc |-> "", out |-> SoloReport(cd, r, o)] :
                   o \in SolveOutcomes(safe(Get(r, "gen", Num(0))), cbc)}

\* Every build that has returned has returned what it returns alone.
AsAlone == \A b \in Builds : pc[b] = "done" => ret[b] \in SoloResults(clickData[b])

\* C12: in every interleaving of two builds, a step changes what one build
\* holds and nothing of the other, the table and the solver are left as
\* they were, and every build that has returned has returned the result of
\* running alone on the table with its own event.
C12_BuildsIndependent ==
    /\ []AsAlone
    /\ [][/\ df' = df /\ cbc' = cbc
          /\ \A b1, b2 \in Builds :
               (b1 # b2 /\ Private(b1)' # Private(b1)) => Private(b2)' = Private(b2)]_vars

\* Two builds for different districts, both between solving and reading
\* back, each with its own problem solved to a different plan.
C12_Witness ==
    \E b1, b2 \in Builds :
        /\ pc[b1] = "retrieve" /\ pc[b2] = "retrieve"
        /\ row[b1] # row[b2] /\ W[b1] # W[b2]
        /\ solver[b1].status = "Optimal" /\ solver[b2].status = "Optimal"
        /\ solver[b1].x # solver[b2].x

\* The sections shown.
Open == {i \in 1..3 : is_open[i]}

\* The button of the most recent click since the page was loaded (0: none).
LastClicked ==
    IF ctx.called /\ ctx.triggered.items # <<>>
                  /\ ctx.triggered.items[1].prop_id # <<".">>
    THEN CHOOSE i \in 1..3 : ctx.triggered.items[1].prop_id[1] = Buttons[i]
    ELSE 0

\* C13: before any call, and after a call with no triggering button, the
\* three sections are closed; after any sequence of clicks at most one
\* section is open, and it is the section of the button clicked last,
\* whether or not it was open before.
C13_Sections ==
    /\ Cardinality(Open) <= 1
    /\ LastClicked = 0 => Open = {}
    /\ LastClicked # 0 => Open = {LastClicked}
    /\ \A i \in 1..3 : n_clicks[i] \in 0..MaxClicks
    /\ LastClicked # 0 => n_clicks[LastClicked] >= 1

\* The button of the waste-characteristics section has been clicked twice
\* and no other: the second click found the section open and left it open.
C13_Witness ==
    /\ n_clicks = [i \in 1..3 |-> IF i = 2 THEN 2 ELSE 0]
    /\ LastClicked = 2
    /\ is_open = [i \in 1..3 |-> i = 2]

====
